---- MODULE Spec2Model ----
(***************************************************************************)
(* Model of GenericPacketParser::PacketParser (genericpacketparser.h).     *)
(*                                                                         *)
(* A parser owns a tuple of field descriptors (fields) and three working   *)
(* members (data, length, offset).  parse() resets the working members and *)
(* walks the fields left to right; MultiField recurses into a child        *)
(* sequence with its own error slot and its own intermediary output,       *)
(* DynamicFieldArray repeats its child arraySize times on the same output. *)
(*                                                                         *)
(* The recursion of the C++ code is kept as an explicit stack of frames,   *)
(* one frame per running processAllFields / processMultiField call.  One   *)
(* action is one processField call on a leaf field, one entry into or one  *)
(* return from a child sequence.                                           *)
(*                                                                         *)
(* The host is little-endian (the demo's comments "gotta reverse           *)
(* endianness" on big-endian wire data assume it).                         *)
(***************************************************************************)
EXTENDS Integers, Sequences, FiniteSets, TLC

VARIABLES
    fields,   \* PacketParser::_fields, fixed by the constructor
    data,     \* the caller's physical buffer (PacketParser::_data points at it)
    length,   \* PacketParser::_length, the declared length
    offset,   \* PacketParser::_offset
    stack,    \* running processAllFields / processMultiField calls, innermost last
    pc,       \* "idle", "running", "done", "aborted", "fault"
    result,   \* the PacketParserErrorId returned by the last parse
    reads,    \* history: indices of data read since parse was entered
    last,     \* history: what the last step did
    first,    \* history: the first field of this parse that stored an error
    call,     \* history: the arguments of the running thread's parse call
    other     \* the locals of a second thread that uses the same parser

vars == <<fields, data, length, offset, stack, pc, result, reads, last, first,
          call, other>>

\* ---------------------------------------------------------------------------
\* Bounds of the model
\* ---------------------------------------------------------------------------

\* Largest physical buffer handed to parse.
MaxPhys == 4

\* Largest byte value stored in a buffer (bytes are 0..MaxByte).
MaxByte == 2

\* The most parse calls made on one parser
MaxCalls == 2

Byte == 0..MaxByte

\* ---------------------------------------------------------------------------
\* Errors
\* ---------------------------------------------------------------------------

PacketParserErrorId ==
    {"NoError", "InvalidText", "InvalidValue", "MissingNullTerminator",
     "EmptyTextNotAllowed", "ExceededDataRange", "UnhandledFieldType", "Unknown"}

\* ---------------------------------------------------------------------------
\* Field descriptors.  Every descriptor is a record of the same shape; a
\* member a kind does not have is left at a neutral value.
\*   length    ValueField: sizeof(ValueType); TextField: maxLength
\*   sizeLen   DynamicFieldArray: sizeof(ArraySizeType)
\*   fields    MultiField: the subfields; DynamicFieldArray: <<field>>
\* ---------------------------------------------------------------------------

ValueField(T, setter, InvertEndianness) ==
    [typeId |-> "ValueField", length |-> T, invertEndianness |-> InvertEndianness,
     allowEmpty |-> FALSE, setter |-> setter, fields |-> <<>>, sizeLen |-> 0]

TextField(setter, maxLength, AllowEmpty) ==
    [typeId |-> "TextField", length |-> maxLength, invertEndianness |-> FALSE,
     allowEmpty |-> AllowEmpty, setter |-> setter, fields |-> <<>>, sizeLen |-> 0]

BinaryField(PayloadSizeType, setter) ==
    [typeId |-> "BinaryField", length |-> 0, invertEndianness |-> FALSE,
     allowEmpty |-> FALSE, setter |-> setter, fields |-> <<>>,
     sizeLen |-> PayloadSizeType]

MultiField(setter, subfields) ==
    [typeId |-> "MultiField", length |-> 0, invertEndianness |-> FALSE,
     allowEmpty |-> FALSE, setter |-> setter, fields |-> subfields, sizeLen |-> 0]

DynamicFieldArray(ArraySizeType, field) ==
    [typeId |-> "DynamicFieldArray", length |-> 0, invertEndianness |-> FALSE,
     allowEmpty |-> FALSE, setter |-> "none", fields |-> <<field>>,
     sizeLen |-> ArraySizeType]

StaticFieldArray(len, field) ==
    [typeId |-> "StaticFieldArray", length |-> len, invertEndianness |-> FALSE,
     allowEmpty |-> FALSE, setter |-> "none", fields |-> <<field>>, sizeLen |-> 0]

\* ---------------------------------------------------------------------------
\* Endianness inversion, computed with the shifts and masks of the source.
\* ---------------------------------------------------------------------------

Pow2(k) == 2 ^ k

\* value << k in a type of `bits` bits
Shl(value, k, bits) == (value % Pow2(bits - k)) * Pow2(k)

\* value >> k
Shr(value, k) == value \div Pow2(k)

\* x & (0xff << pos)
MaskByte(x, pos) == ((x \div Pow2(pos)) % 256) * Pow2(pos)

\* Mutant of EndiannessInverter: the 4-byte case exchanges the two 16-bit
\* halves instead of reversing the four bytes
EndiannessInverterHalves(value, TypeSize) ==
    CASE TypeSize = 2 ->
           MaskByte(Shl(value, 8, 16), 8) + MaskByte(Shr(value, 8), 0)
      [] TypeSize = 4 ->
           MaskByte(Shl(value, 16, 32), 24) + MaskByte(Shl(value, 16, 32), 16)
           + MaskByte(Shr(value, 16), 8) + MaskByte(Shr(value, 16), 0)
      [] TypeSize = 8 -> value

EndiannessInverter(value, TypeSize) ==
    CASE TypeSize = 2 ->
           MaskByte(Shl(value, 8, 16), 8) + MaskByte(Shr(value, 8), 0)
      [] TypeSize = 4 ->
           MaskByte(Shl(value, 24, 32), 24) + MaskByte(Shl(value, 8, 32), 16)
           + MaskByte(Shr(value, 8), 8) + MaskByte(Shr(value, 24), 0)
      [] TypeSize = 8 ->
           MaskByte(Shl(value, 56, 64), 56) + MaskByte(Shl(value, 40, 64), 48)
           + MaskByte(Shl(value, 24, 64), 40) + MaskByte(Shl(value, 8, 64), 32)
           + MaskByte(Shr(value, 8), 24) + MaskByte(Shr(value, 24), 16)
           + MaskByte(Shr(value, 40), 8) + MaskByte(Shr(value, 56), 0)

\* ---------------------------------------------------------------------------
\* Memory.  _data[i] for i inside the physical buffer is the buffer's byte;
\* past the physical buffer the read is undefined: it yields whatever the
\* neighbouring memory holds (any byte), or the access faults.
\* ---------------------------------------------------------------------------

\* The possible contents of &_data[at] .. &_data[at + size - 1]: the bytes
\* of the buffer, then any bytes for the part that lies past the buffer
Window(at, size) ==
    LET inside == IF at >= Len(data) THEN 0
                  ELSE IF at + size <= Len(data) THEN size ELSE Len(data) - at
    IN  {[k \in 1..size |-> IF k <= inside THEN data[at + k] ELSE junk[k - inside]] :
            junk \in [1..(size - inside) -> Byte]}

\* *(reinterpret_cast<const T*>(p)) on a little-endian host, p -> bytes
RECURSIVE ReadNative(_)
ReadNative(bytes) ==
    IF bytes = <<>> THEN 0
    ELSE Head(bytes) + 256 * ReadNative(Tail(bytes))

\* ---------------------------------------------------------------------------
\* Output objects.  An output object is the sequence of setter calls made
\* on it since it was constructed; a call is a record
\*   setter  the member function called
\*   kind    "value" (num), "text" (text) or "multi" (sub)
\*   num     the value passed by a ValueField
\*   text    the characters a TextField's pointer designates up to the \0
\*   sub     the intermediary output passed by a MultiField
\* ---------------------------------------------------------------------------

ValueCall(setter, v) ==
    [setter |-> setter, kind |-> "value", num |-> v, text |-> <<>>, sub |-> <<>>]

TextCall(setter, t) ==
    [setter |-> setter, kind |-> "text", num |-> 0, text |-> t, sub |-> <<>>]

MultiCall(setter, intermediaryOutput) ==
    [setter |-> setter, kind |-> "multi", num |-> 0, text |-> <<>>,
     sub |-> intermediaryOutput]

\* ---------------------------------------------------------------------------
\* Frames.  A frame is one running fold (processField(...), ...) over a
\* tuple of fields:
\*   fields  the tuple
\*   idx     the next field of the tuple (1-based)
\*   loops   the running for-loops of DynamicFieldArray fields of this frame,
\*           innermost last: [field, i, n] is  for (i; i < n; ++i) on `field`
\*   error   the frame's local PacketParserErrorId
\*   out     the output object of the frame
\*   setter  the setter that receives `out` (a MultiField's), "none" at top
\* ---------------------------------------------------------------------------

NewFrame(fs, setter) ==
    [fields |-> fs, idx |-> 1, loops |-> <<>>, error |-> "NoError",
     out |-> <<>>, setter |-> setter]

Top == stack[Len(stack)]

\* The frame still has a processField call to make.
HasCurrent(f) == f.loops # <<>> \/ f.idx <= Len(f.fields)

\* The field of that call.
Current(f) ==
    IF f.loops # <<>> THEN f.loops[Len(f.loops)].field ELSE f.fields[f.idx]

\* The frame after its current processField call has returned: the innermost
\* running loop goes to its next iteration or ends, else the fold goes to
\* its next field.
RECURSIVE Advance(_)
Advance(f) ==
    IF f.loops = <<>> THEN [f EXCEPT !.idx = @ + 1]
    ELSE LET k == Len(f.loops)
             l == f.loops[k]
         IN  IF l.i + 1 < l.n
             THEN [f EXCEPT !.loops[k].i = @ + 1]
             ELSE Advance([f EXCEPT !.loops = SubSeq(@, 1, k - 1)])

\* Mutant of EnterLoop: the loop tests i <= arraySize
EnterLoopInclusive(f, field, arraySize) ==
    [f EXCEPT !.loops = Append(@, [field |-> field, i |-> 0, n |-> arraySize + 1])]

\* for (size_t i = 0; i < arraySize; ++i) processField(output, field.field, error)
EnterLoop(f, field, arraySize) ==
    IF arraySize = 0 THEN Advance(f)
    ELSE [f EXCEPT !.loops = Append(@, [field |-> field, i |-> 0, n |-> arraySize])]

ReplaceTop(f) == [stack EXCEPT ![Len(stack)] = f]

\* ---------------------------------------------------------------------------
\* History records
\* ---------------------------------------------------------------------------

NoField ==
    [typeId |-> "none", length |-> 0, invertEndianness |-> FALSE,
     allowEmpty |-> FALSE, setter |-> "none", fields |-> <<>>, sizeLen |-> 0]

\* op: the step; field: the field it processed; at: _offset when it began;
\* bytes: the bytes it read, from index `at` on; depth: Len(stack) when it began
Step(op, field, at, bytes, depth) ==
    [op |-> op, field |-> field, at |-> at, bytes |-> bytes, depth |-> depth]

\* error: the code stored; field: the field that stored it; at: _offset
\* when that field began
NoFailure == [error |-> "NoError", field |-> NoField, at |-> 0]

\* `first` after a field's branch left frame f
Failure(f, field) ==
    IF first.error = "NoError" /\ f.error # "NoError"
    THEN [error |-> f.error, field |-> field, at |-> offset]
    ELSE first

Indices(at, n) == {at + k : k \in 0..(n - 1)}

\* ---------------------------------------------------------------------------
\* PacketParser::rangeContainsNullTerminator.  `bytes` are the bytes at
\* beginOffset, beginOffset + 1, ...; the result carries the out-parameter
\* nullTerminatorDistance and the error the call stores.
\* ---------------------------------------------------------------------------

RECURSIVE ScanFrom(_, _, _, _, _)
ScanFrom(i, beginOffset, endOffset, bytes, nullTerminatorDistance) ==
    IF ~(i < endOffset)
    THEN [found |-> FALSE, d |-> nullTerminatorDistance, error |-> "NoError"]
    ELSE IF i > length
    THEN [found |-> FALSE, d |-> nullTerminatorDistance,
          error |-> "ExceededDataRange"]
    ELSE IF bytes[i - beginOffset + 1] = 0
    THEN [found |-> TRUE, d |-> nullTerminatorDistance + 1, error |-> "NoError"]
    ELSE ScanFrom(i + 1, beginOffset, endOffset, bytes, nullTerminatorDistance + 1)

rangeContainsNullTerminator(beginOffset, endOffset, bytes) ==
    ScanFrom(beginOffset, beginOffset, endOffset, bytes, 0)

\* The number of bytes from beginOffset on that the scan can reach: it stops
\* before endOffset and before the first index greater than _length.
ScanSpan(beginOffset, endOffset) ==
    LET stop == IF endOffset < length + 1 THEN endOffset ELSE length + 1
    IN  IF stop > beginOffset THEN stop - beginOffset ELSE 0

\* ---------------------------------------------------------------------------
\* Inputs
\* ---------------------------------------------------------------------------

Buffers == UNION {[1..n -> Byte] : n \in 0..MaxPhys}

\* The buffers given to a parser that is used for several calls
SmallBuffers == UNION {[1..n -> Byte] : n \in 0..(MaxPhys \div 2)}

nameField == TextField("setName", 2, FALSE)
longNameField == TextField("setName", 3, FALSE)
aliasField == TextField("setName", 2, TRUE)
valueField == ValueField(2, "setValue", FALSE)
flagsField == ValueField(2, "setValue", TRUE)
wideField == ValueField(4, "setValue", FALSE)
wideFieldEndian == ValueField(4, "setValue", TRUE)

\* The tuples of fields a parser is built with: the parts of the demo's
\* parser at a smaller scale (text windows of 2 and 3 bytes, values of 2 and
\* 4 bytes, a one-byte array size), and the demo's parser2.
Grammars ==
    { <<DynamicFieldArray(1, MultiField("addToArray", <<aliasField, flagsField>>))>>,
      <<DynamicFieldArray(1, MultiField("addToArray", <<aliasField>>))>>,
      <<DynamicFieldArray(1, MultiField("addToArray", <<valueField>>))>>,
      <<DynamicFieldArray(1, DynamicFieldArray(1, nameField))>>,
      <<DynamicFieldArray(1, valueField), nameField>>,
      <<MultiField("addToArray", <<nameField, nameField>>), aliasField>>,
      <<MultiField("addToArray", <<MultiField("addToArray", <<nameField>>), valueField>>)>>,
      <<longNameField, nameField>>,
      <<aliasField, longNameField>>,
      <<nameField, valueField, aliasField>>,
      <<valueField, nameField>>,
      <<wideField>>,
      <<wideFieldEndian>>,
      <<flagsField, aliasField>>,
      <<nameField, StaticFieldArray(3, BinaryField(1, "setBinary"))>>,
      <<BinaryField(1, "setBinary"), nameField>> }

\* No parse call was made.  A call records its arguments, the number of
\* calls made on the parser so far, and what the call before it left
NoCall ==
    [data |-> <<>>, length |-> 0, n |-> 0,
     before |-> [result |-> "NoError", offset |-> 0]]

\* The locals of a thread that has not called parse
Idle ==
    [stack |-> <<>>, pc |-> "idle", result |-> "NoError", reads |-> {},
     last |-> Step("construct", NoField, 0, <<>>, 0), first |-> NoFailure,
     call |-> NoCall]

\* ---------------------------------------------------------------------------
\* Initial state: PacketParser's constructor
\* ---------------------------------------------------------------------------

Init ==
    /\ fields \in Grammars
    /\ data = <<>>
    /\ length = 0
    /\ offset = 0
    /\ stack = <<>>
    /\ pc = "idle"
    /\ result = "NoError"
    /\ reads = {}
    /\ last = Step("construct", NoField, 0, <<>>, 0)
    /\ first = NoFailure
    /\ call = NoCall
    /\ other = Idle

\* ---------------------------------------------------------------------------
\* Actions
\* ---------------------------------------------------------------------------

\* Mutant of parseCall: the call does not put the cursor back to 0
parseCallKeepsOffset(d, l) ==
    /\ data' = d
    /\ length' = l
    /\ offset' = offset
    /\ stack' = <<NewFrame(fields, "none")>>
    /\ pc' = "running"
    /\ reads' = {}
    /\ last' = Step("parse", NoField, 0, <<>>, 0)
    /\ first' = NoFailure
    /\ call' = [data |-> d, length |-> l, n |-> call.n + 1,
                before |-> [result |-> result, offset |-> offset]]
    /\ UNCHANGED <<fields, result, other>>

\* PacketParser::parse(d, l, output), up to the first processField call of
\* processAllFields.  The call overwrites _offset, _data and _length and
\* starts from a fresh local error, so nothing of the state before it but
\* _fields reaches the state after it.
parseCall(d, l) ==
    /\ data' = d
    /\ length' = l
    /\ offset' = 0
    /\ stack' = <<NewFrame(fields, "none")>>
    /\ pc' = "running"
    /\ reads' = {}
    /\ last' = Step("parse", NoField, 0, <<>>, 0)
    /\ first' = NoFailure
    /\ call' = [data |-> d, length |-> l, n |-> call.n + 1,
                before |-> [result |-> result, offset |-> offset]]
    /\ UNCHANGED <<fields, result, other>>

\* The first parse call on a parser
parse ==
    /\ pc = "idle"
    /\ \E d \in Buffers : \E l \in 0..Len(d) : parseCall(d, l)

\* Mutant of Skips: processField without its test of the error slot
SkipsNever(f) == FALSE

\* processField's test: the field is not processed
Skips(f) == f.error # "NoError"

\* processField on a field whose sequence already holds an error
processFieldSkip ==
    /\ pc = "running"
    /\ HasCurrent(Top)
    /\ Skips(Top)
    /\ stack' = ReplaceTop(Advance(Top))
    /\ last' = Step("skip", Current(Top), offset, <<>>, Len(stack))
    /\ UNCHANGED <<fields, data, length, offset, pc, result, reads, first, call, other>>

\* The frame that results from the ValueField branch of processBinary
ValueFieldStep(f, field, bytes) ==
    LET raw == ReadNative(bytes)
        v == IF field.invertEndianness
             THEN EndiannessInverter(raw, field.length) ELSE raw
        delivered == [f EXCEPT !.out = Append(@, ValueCall(field.setter, v))]
    IN  IF offset + field.length > length
        THEN [delivered EXCEPT !.error = "ExceededDataRange"]
        ELSE delivered

processValueField ==
    /\ pc = "running"
    /\ HasCurrent(Top)
    /\ ~Skips(Top)
    /\ Current(Top).typeId = "ValueField"
    /\ LET field == Current(Top)
       IN  \E bytes \in Window(offset, field.length) :
              /\ stack' = ReplaceTop(Advance(ValueFieldStep(Top, field, bytes)))
              /\ offset' = offset + field.length
              /\ reads' = reads \cup Indices(offset, field.length)
              /\ last' = Step("value", field, offset, bytes, Len(stack))
              /\ first' = Failure(ValueFieldStep(Top, field, bytes), field)
    /\ UNCHANGED <<fields, data, length, pc, result, call, other>>

\* Mutant of TextFieldStep: a failed scan stores only the scan's own error
TextFieldStepScanError(f, field, bytes, r) ==
    IF ~r.found
    THEN [f EXCEPT !.error = r.error]
    ELSE IF ~field.allowEmpty /\ r.d = 1
    THEN [f EXCEPT !.error = "EmptyTextNotAllowed"]
    ELSE [f EXCEPT !.out = Append(@, TextCall(field.setter, SubSeq(bytes, 1, r.d - 1)))]

\* Mutant of TextFieldStep: the test of allowEmpty is inverted
TextFieldStepEmptyInverted(f, field, bytes, r) ==
    IF ~r.found
    THEN [f EXCEPT !.error = IF r.error = "NoError"
                             THEN "MissingNullTerminator" ELSE r.error]
    ELSE IF field.allowEmpty /\ r.d = 1
    THEN [f EXCEPT !.error = "EmptyTextNotAllowed"]
    ELSE [f EXCEPT !.out = Append(@, TextCall(field.setter, SubSeq(bytes, 1, r.d - 1)))]

\* The frame that results from the TextField branch of processBinary;
\* r is what rangeContainsNullTerminator returned
TextFieldStep(f, field, bytes, r) ==
    IF ~r.found
    THEN [f EXCEPT !.error = IF r.error = "NoError"
                             THEN "MissingNullTerminator" ELSE r.error]
    ELSE IF ~field.allowEmpty /\ r.d = 1
    THEN [f EXCEPT !.error = "EmptyTextNotAllowed"]
    ELSE [f EXCEPT !.out = Append(@, TextCall(field.setter, SubSeq(bytes, 1, r.d - 1)))]

\* Mutant of TextFieldOffset: the cursor advances by the window, not by the
\* distance of the terminator
TextFieldOffsetWindow(field, r) ==
    IF r.found /\ (field.allowEmpty \/ r.d # 1) THEN offset + field.length ELSE offset

\* Mutant of TextFieldOffset: the distance of the terminator is assigned to
\* the cursor, not added to it
TextFieldOffsetAssigned(field, r) ==
    IF r.found /\ (field.allowEmpty \/ r.d # 1) THEN r.d ELSE offset

\* The _offset that results from the TextField branch
TextFieldOffset(field, r) ==
    IF r.found /\ (field.allowEmpty \/ r.d # 1) THEN offset + r.d ELSE offset

processTextField ==
    /\ pc = "running"
    /\ HasCurrent(Top)
    /\ ~Skips(Top)
    /\ Current(Top).typeId = "TextField"
    /\ LET field == Current(Top)
           endOffset == offset + field.length
       IN  \E bytes \in Window(offset, ScanSpan(offset, endOffset)) :
              LET r == rangeContainsNullTerminator(offset, endOffset, bytes)
              IN  /\ stack' = ReplaceTop(Advance(TextFieldStep(Top, field, bytes, r)))
                  /\ offset' = TextFieldOffset(field, r)
                  /\ reads' = reads \cup Indices(offset, r.d)
                  /\ last' = Step("text", field, offset, SubSeq(bytes, 1, r.d), Len(stack))
                  /\ first' = Failure(TextFieldStep(Top, field, bytes, r), field)
    /\ UNCHANGED <<fields, data, length, pc, result, call, other>>

\* MultiField branch of processBinary, up to the first processField call of
\* processMultiField: a fresh intermediaryOutput and a fresh local error
processMultiField ==
    /\ pc = "running"
    /\ HasCurrent(Top)
    /\ ~Skips(Top)
    /\ Current(Top).typeId = "MultiField"
    /\ stack' = Append(stack, NewFrame(Current(Top).fields, Current(Top).setter))
    /\ last' = Step("multi", Current(Top), offset, <<>>, Len(stack))
    /\ UNCHANGED <<fields, data, length, offset, pc, result, reads, first, call, other>>

\* Mutant of MultiFieldReturn: the setter is called whatever the
\* intermediary error
MultiFieldReturnAlways(outer, inner) ==
    IF inner.error # "NoError"
    THEN [outer EXCEPT !.error = inner.error,
                       !.out = Append(@, MultiCall(inner.setter, inner.out))]
    ELSE [outer EXCEPT !.out = Append(@, MultiCall(inner.setter, inner.out))]

\* The caller's frame after processMultiField returned intermediaryError
MultiFieldReturn(outer, inner) ==
    IF inner.error # "NoError"
    THEN [outer EXCEPT !.error = inner.error]
    ELSE [outer EXCEPT !.out = Append(@, MultiCall(inner.setter, inner.out))]

\* processMultiField returns and the MultiField branch finishes
processMultiFieldReturn ==
    /\ pc = "running"
    /\ Len(stack) > 1
    /\ ~HasCurrent(Top)
    /\ LET outer == stack[Len(stack) - 1]
       IN  /\ stack' = [SubSeq(stack, 1, Len(stack) - 1) EXCEPT
                           ![Len(stack) - 1] = Advance(MultiFieldReturn(outer, Top))]
           /\ last' = Step("multiReturn", Current(outer), offset, <<>>, Len(stack))
    /\ UNCHANGED <<fields, data, length, offset, pc, result, reads, first, call, other>>

\* The frame that results from the DynamicFieldArray branch, before its
\* first iteration
DynamicFieldArrayStep(f, field, bytes) ==
    IF offset + field.sizeLen > length
    THEN Advance([f EXCEPT !.error = "ExceededDataRange"])
    ELSE EnterLoop(f, field.fields[1], ReadNative(bytes))

processDynamicFieldArray ==
    /\ pc = "running"
    /\ HasCurrent(Top)
    /\ ~Skips(Top)
    /\ Current(Top).typeId = "DynamicFieldArray"
    /\ LET field == Current(Top)
       IN  \E bytes \in Window(offset, field.sizeLen) :
              /\ stack' = ReplaceTop(DynamicFieldArrayStep(Top, field, bytes))
              /\ offset' = offset + field.sizeLen
              /\ reads' = reads \cup Indices(offset, field.sizeLen)
              /\ last' = Step("array", field, offset, bytes, Len(stack))
              /\ first' = Failure(DynamicFieldArrayStep(Top, field, bytes), field)
    /\ UNCHANGED <<fields, data, length, pc, result, call, other>>

\* BinaryField and StaticFieldArray branches: assert(false) aborts a build
\* with assertions; a build with NDEBUG falls through to UnhandledFieldType
processUnhandled ==
    /\ pc = "running"
    /\ HasCurrent(Top)
    /\ ~Skips(Top)
    /\ Current(Top).typeId \in {"BinaryField", "StaticFieldArray"}
    /\ \/ /\ pc' = "aborted"
          /\ stack' = stack
          /\ first' = first
       \/ /\ pc' = "running"
          /\ stack' = ReplaceTop(Advance([Top EXCEPT !.error = "UnhandledFieldType"]))
          /\ first' = Failure([Top EXCEPT !.error = "UnhandledFieldType"], Current(Top))
    /\ last' = Step("unhandled", Current(Top), offset, <<>>, Len(stack))
    /\ UNCHANGED <<fields, data, length, offset, result, reads, call, other>>

\* processAllFields returns its error and parse returns it
processAllFieldsReturn ==
    /\ pc = "running"
    /\ Len(stack) = 1
    /\ ~HasCurrent(Top)
    /\ result' = Top.error
    /\ pc' = "done"
    /\ last' = Step("return", NoField, offset, <<>>, Len(stack))
    /\ UNCHANGED <<fields, data, length, offset, stack, reads, first, call, other>>

\* The bytes the current field's branch may read, as (at, size)
ReadSize(field) ==
    CASE field.typeId = "ValueField" -> field.length
      [] field.typeId = "DynamicFieldArray" -> field.sizeLen
      [] field.typeId = "TextField" ->
           LET span == ScanSpan(offset, offset + field.length)
               inside == IF Len(data) - offset < span
                         THEN (IF Len(data) > offset THEN Len(data) - offset ELSE 0)
                         ELSE span
               zeros == {k \in 1..inside : data[offset + k] = 0}
           IN  IF zeros # {} THEN CHOOSE k \in zeros : \A j \in zeros : k <= j
               ELSE span
      [] OTHER -> 0

\* A read past the physical buffer hits memory the process may not read
AccessViolation ==
    /\ pc = "running"
    /\ HasCurrent(Top)
    /\ ~Skips(Top)
    /\ offset + ReadSize(Current(Top)) > Len(data)
    /\ pc' = "fault"
    /\ last' = Step("fault", Current(Top), offset, <<>>, Len(stack))
    /\ UNCHANGED <<fields, data, length, offset, stack, result, reads, first, call, other>>

Next ==
    \/ parse
    \/ processFieldSkip
    \/ processValueField
    \/ processTextField
    \/ processMultiField
    \/ processMultiFieldReturn
    \/ processDynamicFieldArray
    \/ processUnhandled
    \/ processAllFieldsReturn
    \/ AccessViolation

Spec == Init /\ [][Next]_vars

\* ---------------------------------------------------------------------------
\* One parser, several parse calls in sequence
\* ---------------------------------------------------------------------------

\* parse is called on a parser that is new or has returned from a call
parseReused ==
    /\ pc \in {"idle", "done"}
    /\ call.n < MaxCalls
    /\ \E d \in SmallBuffers : \E l \in 0..Len(d) : parseCall(d, l)

NextReuse ==
    \/ parseReused
    \/ processFieldSkip
    \/ processValueField
    \/ processTextField
    \/ processMultiField
    \/ processMultiFieldReturn
    \/ processDynamicFieldArray
    \/ processUnhandled
    \/ processAllFieldsReturn
    \/ AccessViolation

SpecReuse == Init /\ [][NextReuse]_vars

\* ---------------------------------------------------------------------------
\* One parser, two callers whose parse calls interleave.  _fields, _data,
\* _length and _offset are members of the parser and so are one for both
\* callers; the error, the output and the position in the fold and in the
\* loops are locals of each caller's processAllFields.  The variables stack,
\* pc, result, reads, last, first and call are those of the caller that
\* runs; `other` keeps those of the caller that waits.
\* ---------------------------------------------------------------------------

\* The parsers that two callers use
SharedGrammars ==
    { <<DynamicFieldArray(1, MultiField("addToArray", <<aliasField>>))>>,
      <<flagsField, aliasField>>,
      <<BinaryField(1, "setBinary"), nameField>> }

InitShared == Init /\ fields \in SharedGrammars

\* A caller that has not called parse calls it
parseShared ==
    /\ pc = "idle"
    /\ \E d \in SmallBuffers : \E l \in 0..Len(d) : parseCall(d, l)

\* The running caller stops between two processField calls and the other
\* caller goes on
switch ==
    /\ pc \in {"running", "done"}
    /\ other.pc \in {"idle", "running"}
    /\ stack' = other.stack
    /\ pc' = other.pc
    /\ result' = other.result
    /\ reads' = other.reads
    /\ last' = other.last
    /\ first' = other.first
    /\ call' = other.call
    /\ other' = [stack |-> stack, pc |-> pc, result |-> result, reads |-> reads,
                 last |-> last, first |-> first, call |-> call]
    /\ UNCHANGED <<fields, data, length, offset>>

NextShared ==
    \/ parseShared
    \/ switch
    \/ processFieldSkip
    \/ processValueField
    \/ processTextField
    \/ processMultiField
    \/ processMultiFieldReturn
    \/ processDynamicFieldArray
    \/ processUnhandled
    \/ processAllFieldsReturn
    \/ AccessViolation

SpecShared == InitShared /\ [][NextShared]_vars

\* ---------------------------------------------------------------------------
\* The parser of the demo program and hand-built encodings of its packets
\* ---------------------------------------------------------------------------

\* The most elements of a hand-built packet
MaxElems == 2

\* makePacketParser(TEXT_FIELD, VALUE_FIELD, DYNAMIC_ARRAY(MULTI_FIELD(...)))
demoFields ==
    << TextField("setName", 16, FALSE),
       ValueField(4, "setValue", FALSE),
       DynamicFieldArray(1,
           MultiField("addToArray",
               << TextField("setName", 16, TRUE),
                  ValueField(4, "setValue", TRUE) >>)) >>

\* The characters of "Alexandre Dumas", "Aramis", "Athos" and "Porthos"
AlexandreDumas == <<65, 108, 101, 120, 97, 110, 100, 114, 101, 32, 68, 117, 109, 97, 115>>
Aramis == <<65, 114, 97, 109, 105, 115>>
Athos == <<65, 116, 104, 111, 115>>
Porthos == <<80, 111, 114, 116, 104, 111, 115>>

\* const unsigned char data[] of the demo program
demoData ==
    AlexandreDumas \o <<0>>
    \o <<1, 1, 0, 0>>
    \o <<4>>
    \o <<0>> \o <<0, 0, 0, 1>>
    \o Aramis \o <<0>> \o <<0, 0, 0, 2>>
    \o Athos \o <<0>> \o <<0, 0, 0, 3>>
    \o Porthos \o <<0>> \o <<0, 0, 0, 4>>

\* The packet that demoData encodes
demoPacket ==
    [name |-> AlexandreDumas, value |-> 257,
     array |-> << [name |-> <<>>, value |-> 1], [name |-> Aramis, value |-> 2],
                  [name |-> Athos, value |-> 3], [name |-> Porthos, value |-> 4] >>]

\* A uint32_t as its four bytes, least significant first
Bytes4(x) ==
    <<x % 256, (x \div 256) % 256, (x \div 65536) % 256, (x \div 16777216) % 256>>

\* The same four bytes, most significant first
Reversed4(x) == [k \in 1..4 |-> Bytes4(x)[5 - k]]

\* The bytes of the elements es, in order: a terminated name and a
\* byte-reversed value each
RECURSIVE EncodeElements(_)
EncodeElements(es) ==
    IF es = <<>> THEN <<>>
    ELSE Head(es).name \o <<0>> \o Reversed4(Head(es).value) \o EncodeElements(Tail(es))

\* The bytes of a packet: terminated name, native-order value, count, elements
Encode(packet) ==
    packet.name \o <<0>> \o Bytes4(packet.value) \o <<Len(packet.array)>>
    \o EncodeElements(packet.array)

\* The setter calls that deliver a packet to a MyPacket
Delivered(packet) ==
    << TextCall("setName", packet.name), ValueCall("setValue", packet.value) >>
    \o [k \in 1..Len(packet.array) |->
            MultiCall("addToArray",
                << TextCall("setName", packet.array[k].name),
                   ValueCall("setValue", packet.array[k].value) >>)]

\* Hand-built packets
demoElements == [name : {<<>>, Aramis}, value : {1, 2}]

demoPackets ==
    {demoPacket} \cup
    [name : {<<65>>, AlexandreDumas}, value : {1, 257},
     array : UNION {[1..n -> demoElements] : n \in 0..MaxElems}]

\* The buffer of the end-to-end scenario: the name, the value 1, then the
\* empty name and the byte-reversed value 1 of one element, with no count
scenarioData ==
    AlexandreDumas \o <<0>> \o <<1, 0, 0, 0>> \o <<0>> \o <<0, 0, 0, 1>>

\* The same with the count of the one element before it
scenarioDataCounted ==
    AlexandreDumas \o <<0>> \o <<1, 0, 0, 0>> \o <<1>> \o <<0>> \o <<0, 0, 0, 1>>

\* What the scenario expects to be delivered
scenarioDelivered ==
    << TextCall("setName", AlexandreDumas), ValueCall("setValue", 1),
       MultiCall("addToArray",
           << TextCall("setName", <<>>), ValueCall("setValue", 1) >>) >>

demoInputs == {Encode(packet) : packet \in demoPackets} \cup {scenarioData}

InitDemo ==
    /\ fields = demoFields
    /\ data = <<>>
    /\ length = 0
    /\ offset = 0
    /\ stack = <<>>
    /\ pc = "idle"
    /\ result = "NoError"
    /\ reads = {}
    /\ last = Step("construct", NoField, 0, <<>>, 0)
    /\ first = NoFailure
    /\ call = NoCall
    /\ other = Idle

\* parser.parse(data, length, output) with length the size of the buffer
parseDemo ==
    /\ pc = "idle"
    /\ \E d \in demoInputs : parseCall(d, Len(d))

\* The steps of a parse of these buffers: none of them has an unhandled
\* field, stores an error or reads past its buffer
NextDemo ==
    \/ parseDemo
    \/ processValueField
    \/ processTextField
    \/ processMultiField
    \/ processMultiFieldReturn
    \/ processDynamicFieldArray
    \/ processAllFieldsReturn

SpecDemo == InitDemo /\ [][NextDemo]_vars

\* ---------------------------------------------------------------------------
\* Properties
\* ---------------------------------------------------------------------------

\* The innermost frame after a step
TopNext == stack'[Len(stack')]

\* data[from .. to] as 0-based indices into the buffer
Slice(from, to) == SubSeq(data, from + 1, to + 1)

\* C1: sticky first-error-wins.  Once the error slot of a running sequence
\* holds a value other than NoError, no later step reads the buffer, calls a
\* setter on that sequence's output or moves the cursor, and the slot keeps
\* its value; that value is the code the first failing field stored, and
\* parse returns it (NoError when no field failed).
C1_StickyFirstError ==
    [][ /\ \A k \in 1..Len(stack) :
              stack[k].error # "NoError" =>
                 /\ offset' = offset
                 /\ reads' = reads
                 /\ stack[k].error = first.error
                 /\ k <= Len(stack') => /\ stack'[k].error = stack[k].error
                                        /\ stack'[k].out = stack[k].out
                 /\ k > Len(stack') => stack'[k - 1].error = stack[k].error
        /\ first' # first => first = NoFailure
        /\ pc' = "done" => result' = first.error /\ result' = stack[1].error
      ]_vars

\* C1 witness: a field was skipped in a sequence whose slot holds the error
\* a TextField stored, with the cursor where that TextField left it.
C1_Witness ==
    /\ last.op = "skip"
    /\ Top.error = "MissingNullTerminator"
    /\ first.error = "MissingNullTerminator"
    /\ first.field.typeId = "TextField"
    /\ offset = first.at

\* No read so far left the physical buffer: the run's behaviour is defined.
ReadsDefined == \A i \in reads : i < Len(data)

\* C2: a decode that needs bytes at or past the declared length (it read an
\* index >= length or moved the cursor past length) never reads such a byte
\* and returns ExceededDataRange.  Stated for the runs whose reads all lie
\* in the physical buffer.
C2_TruncatedYieldsExceeded ==
    pc = "done" /\ ReadsDefined /\ (offset > length \/ \E i \in reads : i >= length)
        => result = "ExceededDataRange" /\ \A i \in reads : i < length

\* C3: every index of the buffer that is read is strictly less than length.
\* Stated for the runs whose reads all lie in the physical buffer.
C3_ReadsBelowLength == ReadsDefined => \A i \in reads : i < length

\* The 1-based distances, from the cursor, of the zero bytes of a text
\* window of the declared buffer
ZerosInWindow(at, maxLength) ==
    {d \in 1..maxLength : at + d <= length /\ data[at + d] = 0}

\* C4: a TextField processed with no prior error whose first zero byte lies
\* at distance d <= maxLength inside the declared buffer (d > 1, or empty
\* text allowed) calls its setter once with the d - 1 bytes before the
\* terminator, advances the cursor by d and leaves the slot at NoError.
C4_TextSuccess ==
    [][ last'.op = "text" =>
          LET field == last'.field
              zeros == ZerosInWindow(offset, field.length)
          IN  zeros # {} =>
                LET d == CHOOSE z \in zeros : \A y \in zeros : z <= y
                IN  d > 1 \/ field.allowEmpty =>
                      /\ TopNext.out =
                           Append(Top.out,
                                  TextCall(field.setter, Slice(offset, offset + d - 2)))
                      /\ offset' = offset + d
                      /\ TopNext.error = "NoError"
                      /\ Len(stack') = Len(stack)
      ]_vars

\* C4 witness: a text of one character and its terminator, inside the
\* declared buffer, was delivered from a window of three bytes.
C4_Witness ==
    /\ last.op = "text"
    /\ last.field.length = 3
    /\ Len(last.bytes) = 2
    /\ last.bytes[2] = 0
    /\ last.at + 2 <= length
    /\ offset = last.at + 2
    /\ Top.error = "NoError"
    /\ Top.out # <<>>
    /\ Top.out[Len(Top.out)].text = <<last.bytes[1]>>

\* The maxLength bytes at `at` exist in the buffer and none is zero.
NoZeroWindow(at, maxLength) ==
    /\ at + maxLength <= Len(data)
    /\ \A k \in 1..maxLength : data[at + k] # 0

\* C5 as claimed: a TextField that is processed and whose window holds no
\* zero byte stores MissingNullTerminator without calling its setter, and
\* parse returns MissingNullTerminator.
C5_NoTerminatorAlwaysMissing ==
    [][ /\ last'.op = "text" /\ NoZeroWindow(offset, last'.field.length) =>
              /\ TopNext.error = "MissingNullTerminator"
              /\ TopNext.out = Top.out
        /\ pc' = "done" /\ first.field.typeId = "TextField"
                        /\ NoZeroWindow(first.at, first.field.length) =>
              result' = "MissingNullTerminator"
      ]_vars

\* C5 as amended: the same, for a window that lies inside the declared
\* length (cursor + maxLength <= length).
C5_NoTerminatorInsideLength ==
    [][ /\ last'.op = "text" /\ NoZeroWindow(offset, last'.field.length)
                             /\ offset + last'.field.length <= length =>
              /\ TopNext.error = "MissingNullTerminator"
              /\ TopNext.out = Top.out
              /\ offset' = offset
        /\ pc' = "done" /\ first.field.typeId = "TextField"
                        /\ NoZeroWindow(first.at, first.field.length)
                        /\ first.at + first.field.length <= length =>
              result' = "MissingNullTerminator"
      ]_vars

\* C5 witness: parse returned MissingNullTerminator for a TextField whose
\* window, inside the declared length, holds no zero byte, with a zero byte
\* and another field after it.
C5_Witness ==
    /\ pc = "done"
    /\ result = "MissingNullTerminator"
    /\ first.field.typeId = "TextField"
    /\ NoZeroWindow(first.at, first.field.length)
    /\ first.at + first.field.length < length
    /\ data[first.at + first.field.length + 1] = 0
    /\ stack[1].out = <<>>
    /\ Len(stack[1].fields) > 1

\* C6: a TextField processed with cursor + maxLength > length and no zero
\* byte in [cursor, length) stores ExceededDataRange.  Stated for the
\* windows that lie in the physical buffer.
C6_ExceededTakesPrecedence ==
    [][ last'.op = "text"
        /\ offset + last'.field.length <= Len(data)
        /\ offset + last'.field.length > length
        /\ (\A i \in offset..(length - 1) : data[i + 1] # 0)
           => TopNext.error = "ExceededDataRange"
      ]_vars

\* C7: a TextField whose first scanned byte is the terminator stores
\* EmptyTextNotAllowed, calls no setter and leaves the cursor when it
\* disallows empty text; when it allows empty text it calls its setter once
\* with the empty string, advances the cursor by 1 and stores no error.
C7_EmptyText ==
    [][ last'.op = "text" /\ offset <= length /\ offset < Len(data)
        /\ data[offset + 1] = 0 =>
          IF last'.field.allowEmpty
          THEN /\ TopNext.out = Append(Top.out, TextCall(last'.field.setter, <<>>))
               /\ offset' = offset + 1
               /\ TopNext.error = "NoError"
          ELSE /\ TopNext.out = Top.out
               /\ offset' = offset
               /\ TopNext.error = "EmptyTextNotAllowed"
               /\ first' = [error |-> "EmptyTextNotAllowed", field |-> last'.field,
                            at |-> offset]
      ]_vars

\* C7 witness: a TextField that disallows empty text met the terminator at
\* the cursor, inside the declared length: EmptyTextNotAllowed is stored,
\* the cursor has not moved and no setter was called.
C7_Witness ==
    /\ last.op = "text"
    /\ ~last.field.allowEmpty
    /\ last.bytes = <<0>>
    /\ last.at < length
    /\ offset = last.at
    /\ Top.error = "EmptyTextNotAllowed"
    /\ Top.out = <<>>

\* The unsigned value of `bytes`, first byte least significant
RECURSIVE LittleEndian(_, _)
LittleEndian(bytes, k) ==
    IF k > Len(bytes) THEN 0
    ELSE bytes[k] * 256 ^ (k - 1) + LittleEndian(bytes, k + 1)

\* The unsigned value of `bytes`, first byte most significant
RECURSIVE BigEndian(_, _)
BigEndian(bytes, k) ==
    IF k > Len(bytes) THEN 0
    ELSE bytes[k] * 256 ^ (Len(bytes) - k) + BigEndian(bytes, k + 1)

\* C8: a ValueField of width w processed with no prior error passes to its
\* setter the value of the w bytes at the cursor, first byte least
\* significant, or first byte most significant when the field inverts
\* endianness (<<1, 0, 0, 0>> gives 16777216 inverted and 1 native),
\* advances the cursor by w, and stores ExceededDataRange exactly when the
\* new offset is greater than length.
C8_ScalarRule ==
    [][ last'.op = "value" =>
          LET field == last'.field
              w == field.length
              bytes == last'.bytes
              v == TopNext.out[Len(TopNext.out)].num
          IN  /\ Len(bytes) = w
              /\ \A k \in 1..w : offset + k <= Len(data) => bytes[k] = data[offset + k]
              /\ TopNext.out = Append(Top.out, ValueCall(field.setter, v))
              /\ v = IF field.invertEndianness
                     THEN BigEndian(bytes, 1) ELSE LittleEndian(bytes, 1)
              /\ bytes = <<1, 0, 0, 0>> =>
                    v = IF field.invertEndianness THEN 16777216 ELSE 1
              /\ offset' = offset + w
              /\ TopNext.error = "ExceededDataRange" <=> offset' > length
              /\ TopNext.error = "NoError" <=> offset' <= length
      ]_vars

\* C8 witness: the bytes <<1, 0, 0, 0>> of a 4-byte buffer were delivered
\* as 16777216 by a ValueField that inverts endianness.
C8_Witness ==
    /\ last.op = "value"
    /\ last.field.invertEndianness
    /\ data = <<1, 0, 0, 0>>
    /\ length = 4
    /\ offset = 4
    /\ Top.error = "NoError"
    /\ Top.out = <<ValueCall("setValue", 16777216)>>

\* C9: a MultiField runs its subfields on a fresh intermediary output under
\* a fresh error slot, and nothing it does touches the frames of its
\* callers before it returns; on return its setter is called once on the
\* caller's output, with the intermediary output, exactly when the
\* subfields left NoError, and otherwise the caller's slot receives the
\* subfields' error and the caller's output is not touched.
C9_GroupRule ==
    [][ /\ last'.op = "multi" =>
              /\ Len(stack') = Len(stack) + 1
              /\ TopNext = NewFrame(last'.field.fields, last'.field.setter)
              /\ TopNext.out = <<>> /\ TopNext.error = "NoError"
        /\ Len(stack') >= Len(stack) =>
              \A k \in 1..(Len(stack) - 1) : stack'[k] = stack[k]
        /\ last'.op = "multiReturn" =>
              LET outer == stack[Len(stack) - 1]
                  inner == Top
              IN  /\ Len(stack') = Len(stack) - 1
                  /\ \A k \in 1..(Len(stack) - 2) : stack'[k] = stack[k]
                  /\ IF inner.error = "NoError"
                     THEN /\ TopNext.out =
                               Append(outer.out, MultiCall(last'.field.setter, inner.out))
                          /\ TopNext.error = "NoError"
                     ELSE /\ TopNext.out = outer.out
                          /\ TopNext.error = inner.error
      ]_vars

\* C9 witness: a MultiField returned an error of its second subfield to its
\* caller after its first subfield had delivered to the intermediary
\* output; the caller's output is untouched.
C9_Witness ==
    /\ last.op = "multiReturn"
    /\ Len(last.field.fields) = 2
    /\ first.field = last.field.fields[2]
    /\ first.at > 0
    /\ Len(stack) = 1
    /\ Top.error = first.error
    /\ Top.error # "NoError"
    /\ Top.out = <<>>

\* The calls on output object `out` made through `setter`
CallsOf(out, setter) ==
    LET Through(c) == c.setter = setter
    IN  SelectSeq(out, Through)

\* The intermediary outputs of k elements laid out from data[pos] on, each
\* element the subfields <<aliasField>> (a text of at most one character)
\* or <<valueField>> (two bytes, first byte least significant)
RECURSIVE ElementsFrom(_, _, _)
ElementsFrom(pos, k, subfield) ==
    IF k = 0 THEN <<>>
    ELSE IF subfield.typeId = "TextField"
    THEN IF data[pos] = 0
         THEN <<<<TextCall(subfield.setter, <<>>)>>>>
              \o ElementsFrom(pos + 1, k - 1, subfield)
         ELSE <<<<TextCall(subfield.setter, <<data[pos]>>)>>>>
              \o ElementsFrom(pos + 2, k - 1, subfield)
    ELSE <<<<ValueCall(subfield.setter, data[pos] + 256 * data[pos + 1])>>>>
         \o ElementsFrom(pos + 2, k - 1, subfield)

\* C10: a DynamicFieldArray reads its size n once, first byte least
\* significant, and runs its child n times on the same output: n = 0 calls
\* no setter, starts no iteration and advances the cursor by the width of
\* the size only; a parse that returns NoError has made exactly n calls of
\* the child's setter on the outer output, and for a MultiField child the
\* n intermediary outputs are the n elements of the buffer, in buffer order.
C10_RepeatedRule ==
    [][ /\ last'.op = "array" /\ offset + last'.field.sizeLen <= length =>
              LET n == LittleEndian(last'.bytes, 1)
              IN  /\ Len(last'.bytes) = last'.field.sizeLen
                  /\ \A k \in 1..Len(last'.bytes) : last'.bytes[k] = data[offset + k]
                  /\ offset' = offset + last'.field.sizeLen
                  /\ TopNext.out = Top.out
                  /\ TopNext.error = "NoError"
                  /\ Len(stack') = Len(stack)
                  /\ IF n = 0
                     THEN Len(TopNext.loops) <= Len(Top.loops)
                     ELSE TopNext.loops =
                            Append(Top.loops,
                                   [field |-> last'.field.fields[1], i |-> 0, n |-> n])
        /\ pc' = "done" /\ result' = "NoError" /\ ReadsDefined
           /\ fields[1].typeId = "DynamicFieldArray"
           /\ fields[1].fields[1].typeId \in {"MultiField", "ValueField"} =>
              LET child == fields[1].fields[1]
                  calls == CallsOf(stack'[1].out, child.setter)
              IN  /\ Len(calls) = data[1]
                  /\ data[1] = 0 /\ Len(fields) = 1 =>
                        stack'[1].out = <<>> /\ offset' = 1
                  /\ child.typeId = "MultiField" /\ Len(child.fields) = 1 =>
                        LET expected == ElementsFrom(2, data[1], child.fields[1])
                        IN  \A k \in 1..data[1] :
                               calls[k] = MultiCall(child.setter, expected[k])
      ]_vars

\* C10 witness: the buffer <<2, 1, 0, 0>> was decoded as an array of two
\* elements: the text <<1>>, then the empty text.
C10_Witness ==
    /\ pc = "done"
    /\ result = "NoError"
    /\ data = <<2, 1, 0, 0>>
    /\ length = 4
    /\ offset = 4
    /\ stack[1].out = <<MultiCall("addToArray", <<TextCall("setName", <<1>>)>>),
                        MultiCall("addToArray", <<TextCall("setName", <<>>)>>)>>

\* ---------------------------------------------------------------------------
\* One parse call as a function of its arguments: the call runs from its
\* first statement to its return with no other call on the parser in
\* between. A run is the record
\*   error    the local error of the processAllFields / processMultiField
\*   out      the calls made on the output object
\*   offset   _offset
\*   defined  FALSE once the run has read past the caller's buffer
\* ---------------------------------------------------------------------------

Run(at) == [error |-> "NoError", out |-> <<>>, offset |-> at, defined |-> TRUE]

\* rangeContainsNullTerminator on the buffer d with _length = l
RECURSIVE nullTerminatorFrom(_, _, _, _, _)
nullTerminatorFrom(i, beginOffset, endOffset, d, l) ==
    IF ~(i < endOffset)
    THEN [found |-> FALSE, d |-> i - beginOffset, error |-> "NoError", defined |-> TRUE]
    ELSE IF i > l
    THEN [found |-> FALSE, d |-> i - beginOffset, error |-> "ExceededDataRange",
          defined |-> TRUE]
    ELSE IF ~(i < Len(d))
    THEN [found |-> FALSE, d |-> i - beginOffset, error |-> "NoError", defined |-> FALSE]
    ELSE IF d[i + 1] = 0
    THEN [found |-> TRUE, d |-> i - beginOffset + 1, error |-> "NoError", defined |-> TRUE]
    ELSE nullTerminatorFrom(i + 1, beginOffset, endOffset, d, l)

RECURSIVE processField(_, _, _, _)
RECURSIVE processFields(_, _, _, _, _)
RECURSIVE processElements(_, _, _, _, _)

\* processField, then processBinary, on the run r
processField(field, r, d, l) ==
    IF ~r.defined \/ r.error # "NoError" THEN r
    ELSE IF field.typeId = "ValueField"
    THEN IF r.offset + field.length > Len(d) THEN [r EXCEPT !.defined = FALSE]
         ELSE LET raw == ReadNative(SubSeq(d, r.offset + 1, r.offset + field.length))
                  v == IF field.invertEndianness
                       THEN EndiannessInverter(raw, field.length) ELSE raw
              IN  [r EXCEPT !.out = Append(@, ValueCall(field.setter, v)),
                            !.offset = @ + field.length,
                            !.error = IF r.offset + field.length > l
                                      THEN "ExceededDataRange" ELSE "NoError"]
    ELSE IF field.typeId = "TextField"
    THEN LET t == nullTerminatorFrom(r.offset, r.offset, r.offset + field.length, d, l)
         IN  IF ~t.defined THEN [r EXCEPT !.defined = FALSE]
             ELSE IF ~t.found
             THEN [r EXCEPT !.error = IF t.error = "NoError"
                                      THEN "MissingNullTerminator" ELSE t.error]
             ELSE IF ~field.allowEmpty /\ t.d = 1
             THEN [r EXCEPT !.error = "EmptyTextNotAllowed"]
             ELSE [r EXCEPT !.out = Append(@, TextCall(field.setter,
                                        SubSeq(d, r.offset + 1, r.offset + t.d - 1))),
                            !.offset = @ + t.d]
    ELSE IF field.typeId = "MultiField"
    THEN LET inner == processFields(field.fields, 1, Run(r.offset), d, l)
         IN  IF ~inner.defined THEN [r EXCEPT !.defined = FALSE]
             ELSE IF inner.error # "NoError"
             THEN [r EXCEPT !.error = inner.error, !.offset = inner.offset]
             ELSE [r EXCEPT !.out = Append(@, MultiCall(field.setter, inner.out)),
                            !.offset = inner.offset]
    ELSE IF field.typeId = "DynamicFieldArray"
    THEN IF r.offset + field.sizeLen > Len(d) THEN [r EXCEPT !.defined = FALSE]
         ELSE IF r.offset + field.sizeLen > l
         THEN [r EXCEPT !.error = "ExceededDataRange", !.offset = @ + field.sizeLen]
         ELSE processElements(field.fields[1],
                  ReadNative(SubSeq(d, r.offset + 1, r.offset + field.sizeLen)),
                  [r EXCEPT !.offset = @ + field.sizeLen], d, l)
    ELSE [r EXCEPT !.error = "UnhandledFieldType"]

\* The fold of processAllFields and processMultiField from field i on
processFields(fs, i, r, d, l) ==
    IF i > Len(fs) THEN r
    ELSE processFields(fs, i + 1, processField(fs[i], r, d, l), d, l)

\* The arraySize iterations of the DynamicFieldArray branch
processElements(field, arraySize, r, d, l) ==
    IF arraySize = 0 THEN r
    ELSE processElements(field, arraySize - 1, processField(field, r, d, l), d, l)

\* parse(d, l, output) on a parser of the fields fs, in a build where the
\* unhandled branches do not abort
parseAlone(fs, d, l) == processFields(fs, 1, Run(0), d, l)

\* The run of the parse call has come to what the call alone comes to
AsAlone ==
    LET r == parseAlone(fields, call.data, call.length)
    IN  /\ r.defined
        /\ result = r.error
        /\ stack[1].out = r.out

\* ---------------------------------------------------------------------------
\* C11: a DynamicFieldArray stops at its first failing iteration. When
\* iteration k (counted from 0) of an array of n > k MultiField elements is
\* the first to store an error, the outer output has received exactly the k
\* elements before it and does not receive the failing one, the error the
\* array stores is the error of iteration k, every later iteration is
\* skipped without a read, a setter call, a new frame or a move of the
\* cursor, and parse returns that error with fewer than n elements delivered.
C11_RepeatedStopsAtFirstFailure ==
    [][ /\ last'.op = "multiReturn" /\ Len(stack) = 2 /\ stack[1].loops # <<>>
           /\ stack[1].error = "NoError" /\ Top.error # "NoError" =>
              LET loop == stack[1].loops[1]
              IN  /\ loop.i < loop.n
                  /\ Len(CallsOf(stack[1].out, loop.field.setter)) = loop.i
                  /\ stack'[1].out = stack[1].out
                  /\ stack'[1].error = Top.error
                  /\ first.error = Top.error
                  /\ offset' = offset
                  /\ reads' = reads
        /\ last'.op = "skip" /\ Top.loops # <<>> =>
              /\ offset' = offset
              /\ reads' = reads
              /\ Len(stack') = Len(stack)
              /\ TopNext.out = Top.out
              /\ TopNext.error = Top.error
        /\ pc' = "done" /\ result' # "NoError" /\ ReadsDefined
           /\ Len(fields) = 1 /\ fields[1].typeId = "DynamicFieldArray"
           /\ fields[1].fields[1].typeId = "MultiField"
           /\ first.field # fields[1] =>
              /\ result' = first.error
              /\ Len(stack'[1].out) < data[1]
      ]_vars

\* C11 witness: of the two elements announced by <<2, 0, 1, 1>> the first,
\* the empty text, was delivered and the second, which has no terminator,
\* was not: the parse returned the error of iteration 1.
C11_Witness ==
    /\ pc = "done"
    /\ result = "MissingNullTerminator"
    /\ data = <<2, 0, 1, 1>>
    /\ length = 4
    /\ first.at = 2
    /\ stack[1].out = <<MultiCall("addToArray", <<TextCall("setName", <<>>)>>)>>

\* ---------------------------------------------------------------------------
\* C12: one parser can serve two parse calls that interleave. Each call has
\* its own cursor and its own error, so a call that returns has returned the
\* code and made the setter calls of the same call made alone on its own
\* buffer and length.
C12_InterleavedAsAlone ==
    pc = "done" /\ parseAlone(fields, call.data, call.length).defined => AsAlone

\* ---------------------------------------------------------------------------
\* C13: round trip on the parser of the demo program. The parse of the
\* hand-built encoding of a packet, with length the size of the encoding,
\* returns NoError, ends with the cursor on the length and has delivered
\* exactly the name, the value and the elements of the packet, in order;
\* the 59 bytes of the demo program are the encoding of "Alexandre Dumas",
\* 0x0101 and the elements "" 1, "Aramis" 2, "Athos" 3, "Porthos" 4.
C13_RoundTrip ==
    /\ Encode(demoPacket) = demoData
    /\ pc = "done" =>
          \A packet \in demoPackets :
              call.data = Encode(packet) /\ call.length = Len(Encode(packet)) =>
                  /\ result = "NoError"
                  /\ stack[1].out = Delivered(packet)
                  /\ offset = length

\* C13 witness: the parse of the demo program's buffer has returned, the
\* last of its four elements delivered being "Porthos" 4.
C13_Witness ==
    /\ pc = "done"
    /\ call.data = demoData
    /\ Len(call.data) = 59
    /\ result = "NoError"
    /\ Len(stack[1].out) = 6
    /\ stack[1].out[1] = TextCall("setName", AlexandreDumas)
    /\ stack[1].out[2] = ValueCall("setValue", 257)
    /\ stack[1].out[6] =
          MultiCall("addToArray",
              << TextCall("setName", Porthos), ValueCall("setValue", 4) >>)

\* C14 as stated: the parse of the scenario's buffer, which has no count
\* between the value and the element, returns NoError and has delivered the
\* name, the value 1 and one element with the empty name and the value 1.
C14_ScenarioAsStated ==
    pc = "done" /\ call.data = scenarioData =>
        result = "NoError" /\ stack[1].out = scenarioDelivered

\* C14: end-to-end scenario. The parse of the name "Alexandre Dumas", the
\* native-order value 1, the count 1 and one element made of the empty name
\* and the byte-reversed value 1 returns NoError and has delivered the
\* name, the value 1 and exactly one element, with the empty name and the
\* value 1.
C14_ScenarioCounted ==
    pc = "done" /\ call.data = scenarioDataCounted
    /\ call.length = Len(scenarioDataCounted) =>
        /\ result = "NoError"
        /\ stack[1].out = scenarioDelivered
        /\ offset = Len(scenarioDataCounted)

\* C14 witness: the parse of the scenario's buffer with its count has
\* returned with one element delivered.
C14_Witness ==
    /\ pc = "done"
    /\ call.data = scenarioDataCounted
    /\ result = "NoError"
    /\ Len(CallsOf(stack[1].out, "addToArray")) = 1

\* ---------------------------------------------------------------------------
\* C15: a parser can be used again. Every parse call starts with the cursor
\* at 0, an empty output and a NoError slot, whatever the call before it
\* left, and the code it returns, the setter calls it makes and the cursor
\* it ends on are those of the same call made alone on the same buffer and
\* length, for every call that reads inside its buffer.
C15_ReuseIndependence ==
    [][ /\ last'.op = "parse" =>
              /\ offset' = 0
              /\ stack' = <<NewFrame(fields, "none")>>
              /\ first' = NoFailure
        /\ pc' = "done" =>
              LET r == parseAlone(fields, call.data, call.length)
              IN  r.defined =>
                     /\ result' = r.error
                     /\ stack'[1].out = r.out
                     /\ offset' = r.offset
      ]_vars

\* C15 witness: the first call on the parser returned ExceededDataRange
\* with the cursor at 1; the second call has decoded <<1, 0>> from index 0
\* as an array of one empty text.
C15_Witness ==
    /\ pc = "done"
    /\ call.n = 2
    /\ call.before.result = "ExceededDataRange"
    /\ call.before.offset = 1
    /\ call.data = <<1, 0>>
    /\ call.length = 2
    /\ result = "NoError"
    /\ offset = 2
    /\ stack[1].out = <<MultiCall("addToArray", <<TextCall("setName", <<>>)>>)>>

\* ---------------------------------------------------------------------------
\* C16: BinaryField and StaticFieldArray fail closed. A parse that reaches
\* one of them with no error stored does not stop on an assertion: the step
\* stores UnhandledFieldType as an ordinary error, calls no setter and
\* leaves the cursor, and parse goes on to return that code.
C16_UnhandledFailsClosed ==
    [][ last'.op = "unhandled" =>
            /\ pc' = "running"
            /\ TopNext.error = "UnhandledFieldType"
            /\ TopNext.out = Top.out
            /\ offset' = offset
            /\ reads' = reads
      ]_vars

\* ---------------------------------------------------------------------------
\* C17: the cursor never decreases during a parse call and is one cursor for
\* all nesting levels: entering and leaving a MultiField, an iteration of an
\* array and a skipped field leave it where it is, a ValueField that
\* succeeds adds its width, a TextField that succeeds adds the length of the
\* text and its terminator, and a DynamicFieldArray whose size is in range
\* adds the width of the size.
C17_CursorMonotonic ==
    [][ pc = "running" =>
            /\ offset' >= offset
            /\ last'.at = offset
            /\ last'.op \in {"skip", "multi", "multiReturn", "unhandled", "return"} =>
                  offset' = offset
            /\ last'.op = "value" /\ TopNext.error = "NoError" =>
                  offset' = offset + last'.field.length
            /\ last'.op = "text" /\ TopNext.error = "NoError" =>
                  /\ offset' = offset + Len(last'.bytes)
                  /\ last'.bytes[Len(last'.bytes)] = 0
                  /\ \A k \in 1..(Len(last'.bytes) - 1) : last'.bytes[k] # 0
            /\ last'.op = "array" /\ TopNext.error = "NoError" =>
                  offset' = offset + last'.field.sizeLen
      ]_vars

\* C17 witness: a TextField inside a MultiField has moved the cursor that
\* the ValueField of the enclosing MultiField went on from: the value that
\* was delivered is the one at the text's end.
C17_Witness ==
    /\ Len(stack) = 2
    /\ last.op = "value"
    /\ last.at = 2
    /\ offset = 4
    /\ Top.error = "NoError"
    /\ Len(Top.out) = 2
    /\ Top.out[1] = MultiCall("addToArray", <<TextCall("setName", <<1>>)>>)

\* ---------------------------------------------------------------------------
\* C18: a parse never consumes more than the declared length with success.
\* While the slot of the running frame holds NoError, and when parse has
\* returned NoError, the cursor is at most _length: no TextField completes
\* on a terminator at index _length. Stated for the parses whose reads all
\* lie inside the caller's buffer.
C18_ConsumedWithinLength ==
    /\ ReadsDefined /\ pc = "running" /\ Top.error = "NoError" => offset <= length
    /\ ReadsDefined /\ pc = "done" /\ result = "NoError" => offset <= length

====
